---------------------------- MODULE Spec2Model ----------------------------
(***************************************************************************)
(* A model of project_mem_mcp/server.py: the three tools of the Project    *)
(* Memory server (get_project_memory, set_project_memory,                  *)
(* update_project_memory), the patch validator and parser                  *)
(* (validate_block_integrity, parse_search_replace_blocks) and the         *)
(* sequential exact-match applier inside update_project_memory.            *)
(*                                                                         *)
(* Text is a sequence of symbols.  Each of the three marker literals is    *)
(* one symbol: "S" is "<<<<<<< SEARCH", "E" is "=======" and "R" is        *)
(* ">>>>>>> REPLACE"; "n" is the line feed, "sp" a blank, and "a", "b"     *)
(* are ordinary characters.  The texts of the model are therefore the      *)
(* texts in which a marker literal occurs only as a whole; on those,       *)
(* Python's str.count, str.find, str.split, `in` and re.findall act on     *)
(* the literals exactly as the operators below act on the symbols.         *)
(***************************************************************************)
EXTENDS Integers, Sequences, FiniteSets

(***************************************************************************)
(* Bounds of the model.                                                    *)
(***************************************************************************)
MaxLines == 5
MaxDocLen == 3
MaxPayLen == 2
MaxFileLen == 2

(***************************************************************************)
(* Python string primitives on sequences of symbols.                       *)
(***************************************************************************)
Min(set) == CHOOSE x \in set : \A y \in set : x <= y

\* t[i..] begins with sub (i is 1-based)
OccursAt(t, sub, i) ==
    /\ i >= 1
    /\ i + Len(sub) - 1 <= Len(t)
    /\ \A k \in 1..Len(sub) : t[i + k - 1] = sub[k]

\* every 1-based position at which sub occurs in t (overlapping ones included)
Positions(t, sub) == {i \in 1..(Len(t) + 1) : OccursAt(t, sub, i)}

\* the least position >= from at which sub occurs in t, 0 when there is none
RECURSIVE FindFrom(_, _, _)
FindFrom(t, sub, from) ==
    IF from + Len(sub) - 1 > Len(t) THEN 0
    ELSE IF OccursAt(t, sub, from) THEN from
    ELSE FindFrom(t, sub, from + 1)

\* str.find: the 0-based index of the first occurrence, -1 when there is none
PyFind(t, sub) == FindFrom(t, sub, 1) - 1

\* `sub in t`
Contains(t, sub) == FindFrom(t, sub, 1) # 0

RECURSIVE CountFrom(_, _, _)
CountFrom(t, sub, from) ==
    LET p == FindFrom(t, sub, from)
    IN  IF p = 0 THEN 0 ELSE 1 + CountFrom(t, sub, p + Len(sub))

\* str.count: the number of non-overlapping occurrences, scanning from the
\* left; the empty string occurs len(t) + 1 times
PyCount(t, sub) ==
    IF sub = <<>> THEN Len(t) + 1 ELSE CountFrom(t, sub, 1)

RECURSIVE SplitFrom(_, _, _)
SplitFrom(t, sep, from) ==
    LET p == FindFrom(t, sep, from)
    IN  IF p = 0
        THEN <<SubSeq(t, from, Len(t))>>
        ELSE <<SubSeq(t, from, p - 1)>> \o SplitFrom(t, sep, p + Len(sep))

\* str.split(sep) for a non-empty separator
PySplit(t, sep) == SplitFrom(t, sep, 1)

RECURSIVE JoinWith(_, _)
JoinWith(parts, glue) ==
    IF parts = <<>> THEN <<>>
    ELSE IF Len(parts) = 1 THEN parts[1]
    ELSE parts[1] \o glue \o JoinWith(Tail(parts), glue)

RECURSIVE Interleave(_, _)
Interleave(t, new) ==
    IF t = <<>> THEN new ELSE new \o <<Head(t)>> \o Interleave(Tail(t), new)

\* a mutant of PyReplace: the match is removed and the new text is appended
PyReplaceAppends(t, old, new) ==
    IF old = <<>> THEN Interleave(t, new)
    ELSE JoinWith(PySplit(t, old), <<>>) \o new

\* str.replace(old, new): every non-overlapping occurrence, from the left;
\* an empty old inserts new before every character and at the end
PyReplace(t, old, new) ==
    IF old = <<>> THEN Interleave(t, new)
    ELSE JoinWith(PySplit(t, old), new)

\* str.startswith
StartsWith(t, prefix) == OccursAt(t, prefix, 1)

NL == "n"
SP == "sp"

\* str.splitlines: the pieces between line feeds, without a last empty piece
PySplitLines(t) ==
    LET pieces == PySplit(t, <<NL>>)
    IN  IF pieces[Len(pieces)] = <<>>
        THEN SubSeq(pieces, 1, Len(pieces) - 1)
        ELSE pieces

RECURSIVE LStrip(_)
LStrip(t) == IF t # <<>> /\ Head(t) \in {SP, NL} THEN LStrip(Tail(t)) ELSE t

RECURSIVE RStrip(_)
RStrip(t) ==
    IF t # <<>> /\ t[Len(t)] \in {SP, NL}
    THEN RStrip(SubSeq(t, 1, Len(t) - 1))
    ELSE t

\* str.strip
PyStrip(t) == RStrip(LStrip(t))


(***************************************************************************)
(* The markers (parse_search_replace_blocks, lines 161-163).               *)
(***************************************************************************)
search_marker == <<"S">>
separator == <<"E">>
replace_marker == <<"R">>
MarkerList == <<search_marker, separator, replace_marker>>

\* What a function returns or raises: kind "ok" is a normal return, any
\* other kind names the error raised; idx and data are the numbers and
\* the list the error message holds; blocks is the list returned.
Result(kind, idx, data, blocks) ==
    [kind |-> kind, idx |-> idx, data |-> data, blocks |-> blocks]

Ok(blocks) == Result("ok", 0, <<>>, blocks)
Err(kind, idx, data) == Result(kind, idx, data, <<>>)

(***************************************************************************)
(* validate_block_integrity                                                *)
(***************************************************************************)
\* lines 133-137: the stripped lines that equal a marker, in order
RECURSIVE MarkerLines(_)
MarkerLines(lines) ==
    IF lines = <<>> THEN <<>>
    ELSE LET line == PyStrip(Head(lines))
         IN  (IF line \in {search_marker, separator, replace_marker}
              THEN <<line>> ELSE <<>>) \o MarkerLines(Tail(lines))

\* lines 140-146: the first i in range(0, len(markers), 3) with i+2 inside
\* whose triple is not [SEARCH, SEPARATOR, REPLACE]; -1 when there is none
BadTriple(markers) ==
    LET bad == {i \in 0..(Len(markers) - 1) :
                  /\ i % 3 = 0
                  /\ i + 2 < Len(markers)
                  /\ \/ markers[i + 1] # search_marker
                     \/ markers[i + 2] # separator
                     \/ markers[i + 3] # replace_marker}
    IN  IF bad = {} THEN -1 ELSE Min(bad)

\* lines 149-152: the first i >= 1 whose section holds a SEARCH marker
\* before its REPLACE marker; 0 when there is none
NestedSection(text) ==
    LET sections == PySplit(text, search_marker)
        bad == {i \in 1..(Len(sections) - 1) :
                  /\ Contains(sections[i + 1], search_marker)
                  /\ PyFind(sections[i + 1], replace_marker)
                       > PyFind(sections[i + 1], search_marker)}
    IN  IF bad = {} THEN 0 ELSE Min(bad)

validate_block_integrity(patch_content) ==
    LET search_count == PyCount(patch_content, search_marker)
        separator_count == PyCount(patch_content, separator)
        replace_count == PyCount(patch_content, replace_marker)
        markers == MarkerLines(PySplitLines(patch_content))
        i == BadTriple(markers)
        nested == NestedSection(patch_content)
    IN  IF ~(search_count = separator_count /\ separator_count = replace_count)
        THEN Err("unbalanced", 0,
                 <<search_count, separator_count, replace_count>>)
        ELSE IF i # -1
        THEN Err("sequence", i, SubSeq(markers, i + 1, i + 3))
        ELSE IF nested # 0
        THEN Err("nested", nested, <<>>)
        ELSE Ok(<<>>)

(***************************************************************************)
(* parse_search_replace_blocks                                             *)
(***************************************************************************)
\* lines 169-170: re.findall of
\*   SEARCH \n (.*?) \n ======= \n (.*?) \n REPLACE   with re.DOTALL.
\* A match starts at an occurrence q of "SEARCH\n"; the lazy first group
\* ends at the first "\n=======\n" at or after it and the lazy second group
\* at the first "\nREPLACE" after that; when either is missing no longer
\* first group can match either, and the scan goes on one position later.
\* The scan resumes where a match ended.
RECURSIVE FindallFrom(_, _)
FindallFrom(text, from) ==
    LET open == search_marker \o <<NL>>
        mid == <<NL>> \o separator \o <<NL>>
        close == <<NL>> \o replace_marker
        q == FindFrom(text, open, from)
        j == IF q = 0 THEN 0 ELSE FindFrom(text, mid, q + Len(open))
        k == IF j = 0 THEN 0 ELSE FindFrom(text, close, j + Len(mid))
    IN  IF q = 0 THEN <<>>
        ELSE IF k = 0 THEN FindallFrom(text, q + 1)
        ELSE << <<SubSeq(text, q + Len(open), j - 1),
                  SubSeq(text, j + Len(mid), k - 1)>> >>
             \o FindallFrom(text, k + Len(close))

RegexFindall(text) == FindallFrom(text, 1)

\* a mutant of ContainsMarker: only the SEARCH marker is looked for
ContainsSearchMarkerOnly(text) == Contains(text, search_marker)

\* lines 205, 207, 223, 225: any(marker in text for marker in [...])
ContainsMarker(text) ==
    \E m \in 1..Len(MarkerList) : Contains(text, MarkerList[m])

\* lines 222-228: the first match that holds a marker raises; else the
\* matches are returned
RECURSIVE CheckMatches(_, _)
CheckMatches(matches, i) ==
    IF i > Len(matches) THEN Ok(matches)
    ELSE IF ContainsMarker(matches[i][1]) THEN Err("leak_search", i, <<>>)
    ELSE IF ContainsMarker(matches[i][2]) THEN Err("leak_replace", i, <<>>)
    ELSE CheckMatches(matches, i + 1)

\* lines 179-202, at a line i (1-based) that equals the SEARCH marker: the
\* next separator line, the next REPLACE line after it, and the payloads
\* between them joined with line feeds
NextBlock(lines, i) ==
    LET search_start == i + 1
        seps == {j \in search_start..Len(lines) : lines[j] = separator}
        separator_idx == IF seps = {} THEN -1 ELSE Min(seps)
        reps == {j \in (separator_idx + 1)..Len(lines) :
                   lines[j] = replace_marker}
        replace_end == IF separator_idx = -1 \/ reps = {} THEN -1
                       ELSE Min(reps)
    IN  IF separator_idx = -1 THEN Err("missing_separator", 0, <<>>)
        ELSE IF replace_end = -1 THEN Err("missing_replace", 0, <<>>)
        ELSE Result("block", replace_end,
                    <<JoinWith(SubSeq(lines, search_start, separator_idx - 1),
                               <<NL>>),
                      JoinWith(SubSeq(lines, separator_idx + 1, replace_end - 1),
                               <<NL>>)>>,
                    <<>>)

\* lines 174-219: the line scan (i is 1-based)
RECURSIVE LineScanFrom(_, _, _)
LineScanFrom(lines, i, blocks) ==
    IF i > Len(lines)
    THEN IF blocks # <<>> THEN Ok(blocks) ELSE Err("no_blocks", 0, <<>>)
    ELSE IF lines[i] = search_marker
    THEN LET nb == NextBlock(lines, i)
         IN  IF nb.kind # "block" THEN nb
             ELSE IF ContainsMarker(nb.data[1])
             THEN Err("leak_search", Len(blocks) + 1, <<>>)
             ELSE IF ContainsMarker(nb.data[2])
             THEN Err("leak_replace", Len(blocks) + 1, <<>>)
             ELSE LineScanFrom(lines, nb.idx + 1, Append(blocks, nb.data))
    ELSE LineScanFrom(lines, i + 1, blocks)

LineScan(patch_content) == LineScanFrom(PySplitLines(patch_content), 1, <<>>)

parse_search_replace_blocks(patch_content) ==
    LET v == validate_block_integrity(patch_content)
        matches == RegexFindall(patch_content)
    IN  IF v.kind # "ok" THEN v
        ELSE IF matches = <<>> THEN LineScan(patch_content)
        ELSE CheckMatches(matches, 1)

(***************************************************************************)
(* The applier: one iteration of the loop of update_project_memory.        *)
(***************************************************************************)
Applied(content) ==
    [kind |-> "applied", content |-> content, idx |-> 0, count |-> 1]
Refused(kind, content, idx, count) ==
    [kind |-> kind, content |-> content, idx |-> idx, count |-> count]

\* lines 267-285: block number i (0-based, as enumerate gives it) on the
\* working copy current_content
ApplyBlock(current_content, block, i) ==
    LET search_text == block[1]
        replace_text == block[2]
        count == PyCount(current_content, search_text)
    IN  IF count = 1
        THEN Applied(PyReplace(current_content, search_text, replace_text))
        ELSE IF count > 1
        THEN Refused("ambiguous", current_content, i + 1, count)
        ELSE Refused("not_found", current_content, i + 1, count)

(***************************************************************************)
(* The state.                                                              *)
(***************************************************************************)
VARIABLES
    \* the server: the memory file of each directory, the running tool
    \* call, its locals, what it opened and wrote, and what it returned
    fs, pc, tool, project_dir, blocks, original_content, current_content,
    applied_blocks, i, opened, writes, outcome,
    \* a call of the validator and the parser on a patch text
    patch_content, parse_pc, validated, parsed,
    \* a block applied to a document, and then its inverse
    document, block, apply_pc, forward, backward

serverVars == <<fs, pc, tool, project_dir, blocks, original_content,
                current_content, applied_blocks, i, opened, writes, outcome>>
parseVars == <<patch_content, parse_pc, validated, parsed>>
applyVars == <<document, block, apply_pc, forward, backward>>
vars == <<serverVars, parseVars, applyVars>>

\* all texts over an alphabet up to a length
Texts(alphabet, maxLen) == UNION {[1..n -> alphabet] : n \in 0..maxLen}

(***************************************************************************)
(* The server.  Paths are texts over "/" and letters; the inputs are       *)
(* absolute paths without "." or "..", symbolic links or a trailing "/",   *)
(* which Path.resolve() returns as they are.                               *)
(***************************************************************************)
Slash == "/"
PathA == <<Slash, "a">>
PathAB == <<Slash, "a", "b">>
PathC == <<Slash, "c">>

\* line 56, for a server started with --allowed-dir /a
allowed_directories == <<PathA>>

\* the directories that exist: /a and /ab; /c does not exist
Dirs == {PathA, PathAB}
ProjectPaths == Dirs \cup {PathC}

\* a path lies in an allowed directory when it is that directory or below it
Inside(path, base) == path = base \/ StartsWith(path, base \o <<Slash>>)
InAllowedDirectory(path) ==
    \E k \in 1..Len(allowed_directories) : Inside(path, allowed_directories[k])

NoFile == [exists |-> FALSE, content |-> <<>>]
File(content) == [exists |-> TRUE, content |-> content]

FileContents == Texts({"a", "b"}, MaxFileLen)

\* the payloads of the patches sent to update_project_memory
UpdatePayloads == {<<>>, <<"a">>, <<"b">>}

\* a block written as the tool's caller writes it: the markers on their
\* own lines, a non-empty payload on the line between them
BlockText(b) ==
    JoinWith(<<search_marker>>
             \o (IF b[1] = <<>> THEN <<>> ELSE <<b[1]>>)
             \o <<separator>>
             \o (IF b[2] = <<>> THEN <<>> ELSE <<b[2]>>)
             \o <<replace_marker>>, <<NL>>)

UpdateBlocks == UpdatePayloads \X UpdatePayloads

UpdatePatches ==
    {BlockText(b) : b \in UpdateBlocks}
    \cup {BlockText(b1) \o <<NL>> \o BlockText(b2) :
            b1 \in UpdateBlocks, b2 \in UpdateBlocks}
    \cup {<<>>, <<"a">>, search_marker \o <<NL, "a">>}

Outcome(kind, cause, idx, count, applied, text) ==
    [kind |-> kind, cause |-> cause, idx |-> idx, count |-> count,
     applied |-> applied, text |-> text]
NoOutcome == Outcome("none", "", 0, 0, 0, <<>>)

\* a memory file that was opened: open(pp / MEMORY_FILE, mode) succeeded
Opened(mode, path) == [mode |-> mode, path |-> path]

\* lines 89, 109: any(str(pp).startswith(base) for base in allowed_directories)
PathAllowed(pp) ==
    \E k \in 1..Len(allowed_directories) :
        StartsWith(pp, allowed_directories[k])

ServerIdle ==
    /\ pc = "idle" /\ tool = "none" /\ project_dir = <<>>
    /\ blocks = <<>> /\ original_content = <<>> /\ current_content = <<>>
    /\ applied_blocks = 0 /\ i = 0 /\ opened = {} /\ writes = 0
    /\ outcome = NoOutcome

ParseUnused ==
    /\ patch_content = <<>> /\ parse_pc = "unused"
    /\ validated = Ok(<<>>) /\ parsed = Ok(<<>>)

ApplyUnused ==
    /\ document = <<>> /\ block = <<<<>>, <<>>>> /\ apply_pc = "unused"
    /\ forward = Applied(<<>>) /\ backward = Applied(<<>>)

ServerUnused ==
    /\ fs = [d \in Dirs |-> NoFile]
    /\ ServerIdle

\* a tool call ends: its locals are dropped
Finish(kind, cause, idx, count, applied, text) ==
    /\ pc' = "done"
    /\ outcome' = Outcome(kind, cause, idx, count, applied, text)

\* get_project_memory, lines 83-93
GetProjectMemory(project_path) ==
    LET pp == project_path
    IN  /\ pc = "idle"
        /\ tool' = "get"
        /\ project_dir' = pp
        /\ UNCHANGED <<fs, blocks, original_content, current_content,
                       applied_blocks, i, writes>>
        /\ IF pp \notin Dirs
           THEN /\ Finish("FileNotFoundError", "", 0, 0, 0, <<>>)
                /\ opened' = {}
           ELSE IF ~PathAllowed(pp)
           THEN /\ Finish("PermissionError", "", 0, 0, 0, <<>>)
                /\ opened' = {}
           ELSE IF fs[pp].exists
           THEN /\ opened' = {Opened("r", pp)}
                /\ Finish("ok", "", 0, 0, 0, fs[pp].content)
           ELSE \* open() raises: there is no memory file
                /\ opened' = {}
                /\ Finish("FileNotFoundError", "open", 0, 0, 0, <<>>)

\* set_project_memory, lines 106-113
SetProjectMemory(project_path, project_info) ==
    LET pp == project_path
    IN  /\ pc = "idle"
        /\ tool' = "set"
        /\ project_dir' = pp
        /\ UNCHANGED <<blocks, original_content, current_content,
                       applied_blocks, i>>
        /\ IF pp \notin Dirs
           THEN /\ Finish("FileNotFoundError", "", 0, 0, 0, <<>>)
                /\ UNCHANGED <<fs, opened, writes>>
           ELSE IF ~PathAllowed(pp)
           THEN /\ Finish("PermissionError", "", 0, 0, 0, <<>>)
                /\ UNCHANGED <<fs, opened, writes>>
           ELSE /\ opened' = {Opened("w", pp)}
                /\ fs' = [fs EXCEPT ![pp] = File(project_info)]
                /\ writes' = writes + 1
                /\ Finish("ok", "", 0, 0, 0, <<>>)

\* update_project_memory, lines 242-265: up to the start of the loop
UpdateBegin(project_path, patch) ==
    LET pp == project_path
        parse == parse_search_replace_blocks(patch)
    IN  /\ pc = "idle"
        /\ tool' = "update"
        /\ project_dir' = pp
        /\ UNCHANGED <<fs, writes, applied_blocks, i>>
        /\ IF pp \notin Dirs
           THEN /\ Finish("FileNotFoundError", "", 0, 0, 0, <<>>)
                /\ UNCHANGED <<opened, blocks, original_content,
                               current_content>>
           ELSE IF ~fs[pp].exists
           THEN /\ Finish("FileNotFoundError", "memory_file", 0, 0, 0, <<>>)
                /\ UNCHANGED <<opened, blocks, original_content,
                               current_content>>
           ELSE /\ opened' = {Opened("r", pp)}
                /\ original_content' = fs[pp].content
                /\ IF parse.kind # "ok"
                   THEN /\ Finish("RuntimeError", parse.kind, parse.idx, 0,
                                  0, <<>>)
                        /\ UNCHANGED <<blocks, current_content>>
                   ELSE /\ blocks' = parse.blocks
                        /\ current_content' = fs[pp].content
                        /\ pc' = "apply"
                        /\ UNCHANGED outcome

\* a mutant of UpdateApplyBlock: the file is written after every block
UpdateApplyBlockWritesEarly ==
    LET r == ApplyBlock(current_content, blocks[i + 1], i)
    IN  /\ pc = "apply"
        /\ i < Len(blocks)
        /\ UNCHANGED <<tool, project_dir, blocks, original_content>>
        /\ IF r.kind = "applied"
           THEN /\ current_content' = r.content
                /\ applied_blocks' = applied_blocks + 1
                /\ i' = i + 1
                /\ fs' = [fs EXCEPT ![project_dir] = File(r.content)]
                /\ opened' = opened \cup {Opened("w", project_dir)}
                /\ writes' = writes + 1
                /\ UNCHANGED <<pc, outcome>>
           ELSE /\ Finish("RuntimeError", r.kind, r.idx, r.count, 0, <<>>)
                /\ UNCHANGED <<fs, opened, writes, current_content,
                               applied_blocks, i>>

\* a mutant of UpdateApplyBlock: every block is matched against the
\* document as it was read
UpdateApplyBlockOnOriginal ==
    LET r == ApplyBlock(original_content, blocks[i + 1], i)
    IN  /\ pc = "apply"
        /\ i < Len(blocks)
        /\ UNCHANGED <<fs, opened, writes, tool, project_dir, blocks,
                       original_content>>
        /\ IF r.kind = "applied"
           THEN /\ current_content' = r.content
                /\ applied_blocks' = applied_blocks + 1
                /\ i' = i + 1
                /\ UNCHANGED <<pc, outcome>>
           ELSE /\ Finish("RuntimeError", r.kind, r.idx, r.count, 0, <<>>)
                /\ UNCHANGED <<current_content, applied_blocks, i>>

\* update_project_memory, lines 267-285: one iteration of the loop
UpdateApplyBlock ==
    LET r == ApplyBlock(current_content, blocks[i + 1], i)
    IN  /\ pc = "apply"
        /\ i < Len(blocks)
        /\ UNCHANGED <<fs, opened, writes, tool, project_dir, blocks,
                       original_content>>
        /\ IF r.kind = "applied"
           THEN /\ current_content' = r.content
                /\ applied_blocks' = applied_blocks + 1
                /\ i' = i + 1
                /\ UNCHANGED <<pc, outcome>>
           ELSE /\ Finish("RuntimeError", r.kind, r.idx, r.count, 0, <<>>)
                /\ UNCHANGED <<current_content, applied_blocks, i>>

\* update_project_memory, lines 287-291: after the loop
UpdateWrite ==
    /\ pc = "apply"
    /\ i = Len(blocks)
    /\ opened' = opened \cup {Opened("w", project_dir)}
    /\ fs' = [fs EXCEPT ![project_dir] = File(current_content)]
    /\ writes' = writes + 1
    /\ Finish("ok", "", 0, 0, applied_blocks, <<>>)
    /\ UNCHANGED <<tool, project_dir, blocks, original_content,
                   current_content, applied_blocks, i>>

\* the call has returned; the server waits for the next one
Return ==
    /\ pc = "done"
    /\ pc' = "idle" /\ tool' = "none" /\ project_dir' = <<>>
    /\ blocks' = <<>> /\ original_content' = <<>> /\ current_content' = <<>>
    /\ applied_blocks' = 0 /\ i' = 0 /\ opened' = {} /\ writes' = 0
    /\ outcome' = NoOutcome
    /\ UNCHANGED fs

Init ==
    /\ fs \in [Dirs -> {NoFile} \cup {File(c) : c \in FileContents}]
    /\ ServerIdle
    /\ ParseUnused
    /\ ApplyUnused

Next ==
    \/ \E project_path \in ProjectPaths :
         GetProjectMemory(project_path) /\ UNCHANGED <<parseVars, applyVars>>
    \/ \E project_path \in ProjectPaths, project_info \in FileContents :
         SetProjectMemory(project_path, project_info)
           /\ UNCHANGED <<parseVars, applyVars>>
    \/ \E project_path \in ProjectPaths, patch \in UpdatePatches :
         UpdateBegin(project_path, patch) /\ UNCHANGED <<parseVars, applyVars>>
    \/ UpdateApplyBlock /\ UNCHANGED <<parseVars, applyVars>>
    \/ UpdateWrite /\ UNCHANGED <<parseVars, applyVars>>
    \/ Return /\ UNCHANGED <<parseVars, applyVars>>

Spec == Init /\ [][Next]_vars

(***************************************************************************)
(* The validator and the parser on their own: every patch text of up to    *)
(* MaxLines lines, each line one of LineKinds, joined with line feeds.     *)
(***************************************************************************)
\* a marker alone on its line; an ordinary line; a line that holds the
\* SEARCH marker after other text; a line that holds the separator and the
\* REPLACE marker after other text; a SEARCH marker between blanks
LineKinds ==
    {search_marker, separator, replace_marker, <<"a">>,
     <<"a">> \o search_marker,
     <<"a">> \o separator \o replace_marker,
     <<SP>> \o search_marker \o <<SP>>}

PatchLines == UNION {[1..n -> LineKinds] : n \in 0..MaxLines}

InitParse ==
    /\ \E lines \in PatchLines : patch_content = JoinWith(lines, <<NL>>)
    /\ parse_pc = "start"
    /\ validated = Ok(<<>>)
    /\ parsed = Ok(<<>>)
    /\ ServerUnused
    /\ ApplyUnused

CallValidate ==
    /\ parse_pc = "start"
    /\ validated' = validate_block_integrity(patch_content)
    /\ parse_pc' = "validated"
    /\ UNCHANGED <<patch_content, parsed>>

CallParse ==
    /\ parse_pc = "start"
    /\ parsed' = parse_search_replace_blocks(patch_content)
    /\ parse_pc' = "parsed"
    /\ UNCHANGED <<patch_content, validated>>

NextParse ==
    \/ CallValidate /\ UNCHANGED <<serverVars, applyVars>>
    \/ CallParse /\ UNCHANGED <<serverVars, applyVars>>

SpecParse == InitParse /\ [][NextParse]_vars

(***************************************************************************)
(* The applier on its own: a block applied to a document, and then the     *)
(* inverse block applied to the result.                                    *)
(***************************************************************************)
Documents == Texts({"a", "b"}, MaxDocLen)
Payloads == Texts({"a", "b"}, MaxPayLen)

InitApply ==
    /\ document \in Documents
    /\ block \in Payloads \X Payloads
    /\ apply_pc = "start"
    /\ forward = Applied(<<>>)
    /\ backward = Applied(<<>>)
    /\ ServerUnused
    /\ ParseUnused

\* the loop body on the document, for the only block of a patch
ApplyForward ==
    /\ apply_pc = "start"
    /\ forward' = ApplyBlock(document, block, 0)
    /\ apply_pc' = "applied"
    /\ UNCHANGED <<document, block, backward>>

\* the loop body on the result, for the block with search and replace swapped
ApplyBackward ==
    /\ apply_pc = "applied"
    /\ forward.kind = "applied"
    /\ backward' = ApplyBlock(forward.content, <<block[2], block[1]>>, 0)
    /\ apply_pc' = "inverted"
    /\ UNCHANGED <<document, block, forward>>

NextApply ==
    \/ ApplyForward /\ UNCHANGED <<serverVars, parseVars>>
    \/ ApplyBackward /\ UNCHANGED <<serverVars, parseVars>>

SpecApply == InitApply /\ [][NextApply]_vars

(***************************************************************************)
(* Properties of update_project_memory (specification Spec).               *)
(***************************************************************************)
\* the left-to-right fold of single-block applications over a document
RECURSIVE FoldBlocks(_, _, _)
FoldBlocks(doc, bs, k) ==
    IF k > Len(bs) THEN Applied(doc)
    ELSE LET r == ApplyBlock(doc, bs[k], k - 1)
         IN  IF r.kind = "applied" THEN FoldBlocks(r.content, bs, k + 1)
             ELSE r

ApplyErrors == {"ambiguous", "not_found"}

\* C1: update_project_memory writes the memory file at most once per call
\* and only after validation, parsing and every block have succeeded: while
\* the blocks are being applied nothing has been written and the file is as
\* it was read, and a call that ends in an error (format error, block not
\* found, block ambiguous, at any block) has written nothing and leaves the
\* file with the content it had before the call, whatever was already
\* applied to the working copy.
C1_WriteOnlyAfterAllBlocks ==
    tool = "update" =>
        /\ writes <= 1
        /\ (pc = "apply" =>
              /\ writes = 0
              /\ fs[project_dir] = File(original_content))
        /\ (pc = "done" /\ outcome.kind # "ok" =>
              /\ writes = 0
              /\ \A o \in opened : o.mode # "w"
              /\ (outcome.kind = "RuntimeError" =>
                    fs[project_dir] = File(original_content)))
        /\ (writes = 1 =>
              /\ pc = "done"
              /\ outcome.kind = "ok"
              /\ applied_blocks = Len(blocks))

\* a call fails at its second block after the first one changed the
\* working copy
C1_Witness ==
    /\ tool = "update"
    /\ pc = "done"
    /\ outcome.kind = "RuntimeError"
    /\ outcome.cause \in ApplyErrors
    /\ outcome.idx = 2
    /\ FoldBlocks(original_content, SubSeq(blocks, 1, 1), 1).content
         # original_content
    /\ fs[project_dir] = File(original_content)

\* C3: the blocks are applied strictly left to right: before block i+1 is
\* looked at, the working copy is the fold of blocks 1..i over the document
\* that was read and i blocks are counted as applied; on success the file
\* holds the fold of all blocks and the reported number of applied blocks
\* is the number of parsed blocks; a not-found or ambiguity error is the one
\* the fold meets, with its block index and count.
C3_SequentialFold ==
    tool = "update" =>
        /\ (pc = "apply" =>
              /\ FoldBlocks(original_content, SubSeq(blocks, 1, i), 1)
                   = Applied(current_content)
              /\ applied_blocks = i)
        /\ (pc = "done" /\ outcome.kind = "ok" =>
              /\ FoldBlocks(original_content, blocks, 1)
                   = Applied(fs[project_dir].content)
              /\ fs[project_dir].exists
              /\ outcome.applied = Len(blocks))
        /\ (pc = "done" /\ outcome.cause \in ApplyErrors =>
              LET r == FoldBlocks(original_content, blocks, 1)
              IN  /\ r.kind = outcome.cause
                  /\ r.idx = outcome.idx
                  /\ r.count = outcome.count)

\* two blocks were applied, and the second one does not apply to the
\* document as it was read: it matched text the first one produced
C3_Witness ==
    /\ tool = "update"
    /\ pc = "done"
    /\ outcome.kind = "ok"
    /\ outcome.applied = 2
    /\ ApplyBlock(original_content, blocks[2], 1).kind = "not_found"
    /\ fs[project_dir].content # original_content

\* C6: in each of the three tools the project path is checked against the
\* allowed directories before the memory file is opened: no memory file is
\* opened, for reading or for writing, for a project path outside every
\* allowed directory.
C6_OpenOnlyInAllowedDirectories ==
    \A o \in opened : InAllowedDirectory(o.path)

(***************************************************************************)
(* Properties of the applier (specification SpecApply).                    *)
(***************************************************************************)
Occurrences(t, sub) == Cardinality(Positions(t, sub))

\* C2: a block's search text is replaced only when it occurs at exactly one
\* position of the document; at zero positions the block fails as not found
\* with its 1-based index, and at two or more positions (overlapping ones
\* and the empty search text included) it fails as ambiguous, reporting
\* that number of occurrences.
C2_ReplaceOnlyUniqueOccurrence ==
    apply_pc \in {"applied", "inverted"} =>
        LET n == Occurrences(document, block[1])
        IN  /\ (forward.kind = "applied" <=> n = 1)
            /\ (n = 0 => forward.kind = "not_found" /\ forward.idx = 1)
            /\ (n >= 2 => forward.kind = "ambiguous" /\ forward.idx = 1
                            /\ forward.count = n)

\* C7, as claimed: when the search text occurs exactly once in the
\* document, the block applies, and the inverse block then applies to the
\* result and yields the document.
C7_RoundTripAsClaimed ==
    Occurrences(document, block[1]) = 1 =>
        /\ (apply_pc \in {"applied", "inverted"} => forward.kind = "applied")
        /\ (apply_pc = "inverted" =>
              /\ backward.kind = "applied"
              /\ backward.content = document)

\* C7, amended: when the search text occurs exactly once in the document,
\* the block applies; when moreover the replace text occurs exactly once
\* in the result, the inverse block applies to the result and yields the
\* document.
C7_RoundTrip ==
    Occurrences(document, block[1]) = 1 =>
        /\ (apply_pc \in {"applied", "inverted"} => forward.kind = "applied")
        /\ (apply_pc = "inverted"
              /\ Occurrences(forward.content, block[2]) = 1 =>
              /\ backward.kind = "applied"
              /\ backward.content = document)

\* a block that changes the document was applied and undone
C7_Witness ==
    /\ apply_pc = "inverted"
    /\ Occurrences(document, block[1]) = 1
    /\ Occurrences(forward.content, block[2]) = 1
    /\ forward.content # document
    /\ Len(block[1]) > 0 /\ Len(block[2]) > 0
    /\ backward.kind = "applied"
    /\ backward.content = document

(***************************************************************************)
(* Properties of the validator and the parser (specification SpecParse).   *)
(***************************************************************************)
HasMarkerLiteral(text) ==
    \E p \in 1..Len(text) : <<text[p]>> \in {search_marker, separator,
                                              replace_marker}

\* the blocks of a patch text made of blocks only: each marker, possibly
\* between blanks, alone on its line, in the order SEARCH, separator,
\* REPLACE, the lines between them being the payloads.  mode is "out"
\* between blocks, "search" and "replace" inside one.
RECURSIVE WellFormedFrom(_, _, _, _, _)
WellFormedFrom(lines, k, mode, payload, acc) ==
    IF k > Len(lines)
    THEN [ok |-> mode = "out" /\ acc # <<>>, blocks |-> acc]
    ELSE LET line == PyStrip(lines[k])
             isMarker == line \in {search_marker, separator, replace_marker}
         IN  IF mode = "out"
             THEN IF line = search_marker
                  THEN WellFormedFrom(lines, k + 1, "search", <<>>, acc)
                  ELSE [ok |-> FALSE, blocks |-> acc]
             ELSE IF mode = "search"
             THEN IF line = separator
                  THEN WellFormedFrom(lines, k + 1, "replace", <<>>,
                                      Append(acc, <<payload>>))
                  ELSE IF isMarker THEN [ok |-> FALSE, blocks |-> acc]
                  ELSE WellFormedFrom(lines, k + 1, mode,
                                      Append(payload, lines[k]), acc)
             ELSE IF line = replace_marker
                  THEN WellFormedFrom(lines, k + 1, "out", <<>>,
                         Append(SubSeq(acc, 1, Len(acc) - 1),
                                <<acc[Len(acc)][1], payload>>))
                  ELSE IF isMarker THEN [ok |-> FALSE, blocks |-> acc]
                  ELSE WellFormedFrom(lines, k + 1, mode,
                                      Append(payload, lines[k]), acc)

WellFormed(text) == WellFormedFrom(PySplitLines(text), 1, "out", <<>>, <<>>)

\* C4: on a patch text made of N >= 1 blocks whose markers each stand on
\* their own line (possibly between blanks) in the repeating order SEARCH,
\* separator, REPLACE, with any payloads free of marker lines (empty ones
\* and ones that hold a marker inside a longer line included),
\* validate_block_integrity succeeds and parse_search_replace_blocks
\* returns exactly N blocks.
C4_WellFormedParses ==
    WellFormed(patch_content).ok =>
        /\ (parse_pc = "validated" => validated.kind = "ok")
        /\ (parse_pc = "parsed" =>
              /\ parsed.kind = "ok"
              /\ Len(parsed.blocks) = Len(WellFormed(patch_content).blocks))

\* the number of lines that equal a marker once stripped
RECURSIVE WholeLineCount(_, _)
WholeLineCount(lines, marker) ==
    IF lines = <<>> THEN 0
    ELSE (IF PyStrip(Head(lines)) = marker THEN 1 ELSE 0)
         + WholeLineCount(Tail(lines), marker)

WholeLineCounts(text) ==
    <<WholeLineCount(PySplitLines(text), search_marker),
      WholeLineCount(PySplitLines(text), separator),
      WholeLineCount(PySplitLines(text), replace_marker)>>

\* C5: when the numbers of lines that equal the SEARCH marker, the
\* separator and the REPLACE marker once stripped are not all equal,
\* validate_block_integrity fails with the unbalanced-markers error, which
\* reports exactly those three counts.
C5_UnbalancedWholeLineCounts ==
    LET c == WholeLineCounts(patch_content)
    IN  parse_pc = "validated" /\ ~(c[1] = c[2] /\ c[2] = c[3]) =>
            /\ validated.kind = "unbalanced"
            /\ validated.data = c

\* the SEARCH literals (1-based, in text order) that are followed by
\* another SEARCH literal with no REPLACE literal in between
NestedSearches(text) ==
    LET sections == PySplit(text, search_marker)
    IN  {n \in 1..(Len(sections) - 2) :
           ~Contains(sections[n + 1], replace_marker)}

\* C10: on a patch text that passes the balance check and the sequence
\* check and in which a SEARCH literal is followed by another SEARCH
\* literal before the next REPLACE literal, validate_block_integrity fails
\* with the nested-marker error, which names the 1-based index of that
\* block.
C10_NestedSearchRejected ==
    LET counts == <<PyCount(patch_content, search_marker),
                    PyCount(patch_content, separator),
                    PyCount(patch_content, replace_marker)>>
        nested == NestedSearches(patch_content)
    IN  /\ parse_pc = "validated"
        /\ counts[1] = counts[2] /\ counts[2] = counts[3]
        /\ BadTriple(MarkerLines(PySplitLines(patch_content))) = -1
        /\ nested # {}
        => /\ validated.kind = "nested"
           /\ validated.idx = Min(nested)

\* the blocks the line scan cuts out, before any is looked into
RECURSIVE ScannedBlocks(_, _)
ScannedBlocks(lines, k) ==
    IF k > Len(lines) THEN <<>>
    ELSE IF lines[k] = search_marker
    THEN LET nb == NextBlock(lines, k)
         IN  IF nb.kind # "block" THEN <<>>
             ELSE <<nb.data>> \o ScannedBlocks(lines, nb.idx + 1)
    ELSE ScannedBlocks(lines, k + 1)

\* the blocks the strategy in use extracts
Extracted(text) ==
    IF RegexFindall(text) # <<>> THEN RegexFindall(text)
    ELSE ScannedBlocks(PySplitLines(text), 1)

LeakErrors == {"leak_search", "leak_replace"}

\* C8: when parse_search_replace_blocks returns, by the regex or by the
\* line scan, its list is not empty and no search or replace text in it
\* holds a marker literal; when an extracted block holds one, the parse
\* fails with the marker-leakage error for the first such block, naming
\* its 1-based index and whether the search or the replace text holds it.
C8_NoMarkerInPayload ==
    parse_pc = "parsed" =>
        /\ (parsed.kind = "ok" =>
              /\ parsed.blocks # <<>>
              /\ \A k \in 1..Len(parsed.blocks) :
                    /\ ~HasMarkerLiteral(parsed.blocks[k][1])
                    /\ ~HasMarkerLiteral(parsed.blocks[k][2]))
        /\ (validate_block_integrity(patch_content).kind = "ok" =>
              LET raw == Extracted(patch_content)
                  leaking == {k \in 1..Len(raw) :
                                \/ HasMarkerLiteral(raw[k][1])
                                \/ HasMarkerLiteral(raw[k][2])}
              IN  /\ (leaking # {} =>
                        /\ parsed.kind \in LeakErrors
                        /\ parsed.idx = Min(leaking)
                        /\ (parsed.kind = "leak_search"
                              <=> HasMarkerLiteral(raw[Min(leaking)][1])))
                  /\ (parsed.kind \in LeakErrors => leaking # {}))

\* the parse returned blocks found by the regex
C8_Witness ==
    /\ parse_pc = "parsed"
    /\ parsed.kind = "ok"
    /\ RegexFindall(patch_content) # <<>>
    /\ \E k \in 1..Len(parsed.blocks) : parsed.blocks[k][1] # <<>>

\* C9: on a patch text that passes validation and from which the regex
\* extracts at least one block, the list the parse returns is the list the
\* line scan extracts: the lines strictly between a SEARCH line, the next
\* separator line and the next REPLACE line.
C9_RegexAgreesWithLineScan ==
    /\ parse_pc = "parsed"
    /\ validate_block_integrity(patch_content).kind = "ok"
    /\ RegexFindall(patch_content) # <<>>
    /\ parsed.kind = "ok"
    => /\ LineScan(patch_content).kind = "ok"
       /\ LineScan(patch_content).blocks = parsed.blocks

=============================================================================
